---- MODULE Spec2Model ----
(***************************************************************************)
(* Prescription reader: the multi-pass interpretation / extraction /       *)
(* grouping / verification / synthesis pipeline of streamlit_demo_0.py     *)
(* (thread-pool fan-out) with the start of its script, the asyncio.gather  *)
(* fan-out of v1_async_interpretation.py, and the per-name verification    *)
(* of v2_adding_google_search_on_v1.py.                                    *)
(*                                                                         *)
(* A text is a sequence of one-character strings; a model reply is a       *)
(* record [kind |-> "text", text |-> t] or [kind |-> "raise", msg |-> m].  *)
(***************************************************************************)
EXTENDS Integers, Sequences, FiniteSets, TLC

VARIABLES
    pc,                   \* stage main() is in
    uncaught,             \* TRUE once an exception has propagated out of main()
    num_passes,           \* run_parallel_interpretations' num_passes
    ireply,               \* outcome of the interpretation call of pass i (fixed per temperature)
    ifut,                 \* state of the future of pass i
    iorder,               \* the passes in the order as_completed yielded their futures
    results,              \* run_parallel_interpretations' results: <<temp, text>>
    all_interpretations,  \* main's all_interpretations
    medicine_candidates,  \* main's medicine_candidates
    medicine_groups,      \* main's medicine_groups: <<position, group_text, group>>
    vreply,               \* outcome of the verification call of prompt k (fixed per position)
    vfut,                 \* state of the future of verification prompt k
    vorder,               \* the prompts in the order as_completed yielded their futures
    verification_results, \* verify_medicine_groups' verification_results: <<position, text>>
    final_call,           \* the final synthesis request: "none", "inflight", "returned", "raised"
    final_prompt,         \* contents of the final synthesis request
    final_result,         \* the report main displays
    requests,             \* every model request issued in the run, in issue order
    gpc,                  \* v1: position of run_parallel_interpretations (asyncio.gather)
    gtask,                \* v1: state of the task of pass i
    gresults,             \* v1: the list asyncio.gather returned
    final_output,         \* v2: the frame of generate_final_output
    startup               \* the script's start: the credential and the client

\* the variables of the pipelines
pipeline == <<pc, uncaught, num_passes, ireply, ifut, iorder, results, all_interpretations,
              medicine_candidates, medicine_groups, vreply, vfut, vorder,
              verification_results, final_call, final_prompt, final_result, requests,
              gpc, gtask, gresults>>

vars == <<pc, uncaught, num_passes, ireply, ifut, iorder, results, all_interpretations,
          medicine_candidates, medicine_groups, vreply, vfut, vorder, verification_results,
          final_call, final_prompt, final_result, requests, gpc, gtask, gresults,
          final_output,
          startup>>

-----------------------------------------------------------------------------
(* Bounds of the model. *)

\* largest num_passes explored (the source's default is 5)
MaxPasses == 3

\* longest single line explored exhaustively over Alphabet
MaxLineLen == 6

\* most lines of LinePool composed into the input of the extraction
MaxPoolLines == 3

-----------------------------------------------------------------------------
(* Characters, strings and integers. *)

Min(a, b) == IF a <= b THEN a ELSE b

DigitChars == <<"0", "1", "2", "3", "4", "5", "6", "7", "8", "9">>

\* characters \d matches
Digits == {DigitChars[i] : i \in 1..10}

\* characters \s matches and str.strip() removes
Whitespace == {" ", "\t", "\n", "\r"}

DigitVal(c) == (CHOOSE i \in 1..10 : DigitChars[i] = c) - 1

RECURSIVE ParseInt(_)
\* int(s) of a non-empty string of digits
ParseInt(s) ==
    IF Len(s) = 0 THEN 0
    ELSE 10 * ParseInt(SubSeq(s, 1, Len(s) - 1)) + DigitVal(s[Len(s)])

RECURSIVE FormatInt(_)
\* f"{n}" of a natural number
FormatInt(n) ==
    IF n < 10 THEN <<DigitChars[n + 1]>>
    ELSE FormatInt(n \div 10) \o <<DigitChars[(n % 10) + 1]>>

RECURSIVE LStrip(_)
LStrip(s) ==
    IF Len(s) > 0 /\ s[1] \in Whitespace THEN LStrip(Tail(s)) ELSE s

RECURSIVE RStrip(_)
RStrip(s) ==
    IF Len(s) > 0 /\ s[Len(s)] \in Whitespace THEN RStrip(SubSeq(s, 1, Len(s) - 1)) ELSE s

\* str.strip()
Strip(s) == RStrip(LStrip(s))

RECURSIVE SplitFrom(_, _, _)
\* the pieces of s from index i on, cur being the piece under construction
SplitFrom(s, i, cur) ==
    IF i > Len(s) THEN <<cur>>
    ELSE IF s[i] = "\n" THEN <<cur>> \o SplitFrom(s, i + 1, <<>>)
    ELSE SplitFrom(s, i + 1, Append(cur, s[i]))

\* s.split("\n")
SplitLines(s) == SplitFrom(s, 1, <<>>)

RECURSIVE Join(_, _)
\* sep.join(parts)
Join(parts, sep) ==
    IF Len(parts) = 0 THEN <<>>
    ELSE IF Len(parts) = 1 THEN parts[1]
    ELSE parts[1] \o sep \o Join(Tail(parts), sep)

-----------------------------------------------------------------------------
(* extract_medicine_candidates: re.search(r"^\d+\.\s+(.*?):\s*(\d+)%", line) *)

RECURSIVE DigitRun(_, _)
\* length of the longest run of digits of s that starts at index i
DigitRun(s, i) ==
    IF i <= Len(s) /\ s[i] \in Digits THEN 1 + DigitRun(s, i + 1) ELSE 0

RECURSIVE WsRun(_, _)
\* length of the longest run of whitespace of s that starts at index i
WsRun(s, i) ==
    IF i <= Len(s) /\ s[i] \in Whitespace THEN 1 + WsRun(s, i + 1) ELSE 0

\* TailMatches with \s+ in place of \s*: a space is required after the colon
TailMatches_space_required(s, c) ==
    LET w == WsRun(s, c + 1)
        j == c + 1 + w
        d == DigitRun(s, j)
    IN  /\ c <= Len(s)
        /\ s[c] = ":"
        /\ w >= 1
        /\ d >= 1
        /\ j + d <= Len(s)
        /\ s[j + d] = "%"

\* Does  :\s*(\d+)%  match s at index c?  \s* and \d+ are greedy, and giving
\* back a character of either run never helps: the next item cannot match it.
TailMatches(s, c) ==
    LET j == c + 1 + WsRun(s, c + 1)
        d == DigitRun(s, j)
    IN  /\ c <= Len(s)
        /\ s[c] = ":"
        /\ d >= 1
        /\ j + d <= Len(s)
        /\ s[j + d] = "%"

\* group(2) of a match whose colon is at index c
TailDigits(s, c) ==
    LET j == c + 1 + WsRun(s, c + 1)
    IN  SubSeq(s, j, j + DigitRun(s, j) - 1)

RECURSIVE LazyColon(_, _)
\* (.*?) is lazy: the first index c >= g at which the tail matches, 0 when none
LazyColon(s, g) ==
    IF g > Len(s) THEN 0
    ELSE IF TailMatches(s, g) THEN g
    ELSE LazyColon(s, g + 1)

RECURSIVE TrySpaces(_, _, _)
\* \s+ is greedy: it takes w characters first and gives them back one at a time.
\* a is the index of the period; the result is <<g, c>>, group(1) being s[g..c-1].
TrySpaces(s, a, w) ==
    IF w < 1 THEN <<0, 0>>
    ELSE LET g == a + 1 + w
             c == LazyColon(s, g)
         IN  IF c # 0 THEN <<g, c>> ELSE TrySpaces(s, a, w - 1)

NoMatch == [matched |-> FALSE]

\* re.search(r"^\d+\.\s+(.*?):\s*(\d+)%", line): ^ anchors it at the line's start
re_search(line) ==
    LET d == DigitRun(line, 1)
        a == d + 1
    IN  IF d >= 1 /\ a <= Len(line) /\ line[a] = "."
        THEN LET gc == TrySpaces(line, a, WsRun(line, a + 1))
             IN  IF gc[2] = 0 THEN NoMatch
                 ELSE [matched |-> TRUE,
                       group1  |-> SubSeq(line, gc[1], gc[2] - 1),
                       group2  |-> TailDigits(line, gc[2])]
        ELSE NoMatch

\* re.search(r"^(\d+)\.", line): the leading integer, 0 when there is none
line_position(line) ==
    LET d == DigitRun(line, 1)
    IN  IF d >= 1 /\ d + 1 <= Len(line) /\ line[d + 1] = "."
        THEN ParseInt(SubSeq(line, 1, d))
        ELSE 0

\* the candidates one line contributes: none or one
line_candidates(line) ==
    LET match == re_search(line)
    IN  IF match.matched
        THEN <<[name       |-> Strip(match.group1),
                confidence |-> ParseInt(match.group2),
                position   |-> line_position(line)]>>
        ELSE <<>>

RECURSIVE lines_candidates(_)
lines_candidates(lines) ==
    IF Len(lines) = 0 THEN <<>>
    ELSE line_candidates(lines[1]) \o lines_candidates(Tail(lines))

RECURSIVE extract_medicine_candidates(_)
extract_medicine_candidates(interpretations) ==
    IF Len(interpretations) = 0 THEN <<>>
    ELSE lines_candidates(SplitLines(Strip(interpretations[1])))
             \o extract_medicine_candidates(Tail(interpretations))

-----------------------------------------------------------------------------
(* group_similar_medicines *)

RECURSIVE InsertByPosition_before_equal(_, _)
\* InsertByPosition of a sort that is not stable: c goes before its equals
InsertByPosition_before_equal(sorted, c) ==
    IF Len(sorted) = 0 THEN <<c>>
    ELSE IF sorted[1].position < c.position
         THEN <<sorted[1]>> \o InsertByPosition_before_equal(Tail(sorted), c)
         ELSE <<c>> \o sorted

RECURSIVE InsertByPosition(_, _)
\* sorted with c inserted after every element whose position is <= c's
InsertByPosition(sorted, c) ==
    IF Len(sorted) = 0 THEN <<c>>
    ELSE IF sorted[1].position <= c.position
         THEN <<sorted[1]>> \o InsertByPosition(Tail(sorted), c)
         ELSE <<c>> \o sorted

RECURSIVE SortByPosition(_)
\* medicine_candidates.sort(key=lambda x: x["position"]): list.sort is stable
SortByPosition(cands) ==
    IF Len(cands) = 0 THEN <<>>
    ELSE InsertByPosition(SortByPosition(SubSeq(cands, 1, Len(cands) - 1)), cands[Len(cands)])

RECURSIVE SortedKeys(_)
\* sorted(position_groups.keys())
SortedKeys(S) ==
    IF S = {} THEN <<>>
    ELSE LET m == CHOOSE x \in S : \A y \in S : x <= y
         IN  <<m>> \o SortedKeys(S \ {m})

RECURSIVE Bucket_dedup(_, _)
\* Bucket of a loop that skips a candidate equal to one already in the group
Bucket_dedup(cands, position) ==
    IF Len(cands) = 0 THEN <<>>
    ELSE LET rest == Bucket_dedup(SubSeq(cands, 1, Len(cands) - 1), position)
             c    == cands[Len(cands)]
         IN  IF c.position = position /\ \A k \in DOMAIN rest : rest[k] # c
             THEN Append(rest, c)
             ELSE rest

RECURSIVE Bucket(_, _)
\* position_groups[position] after the loop over the sorted candidates
Bucket(cands, position) ==
    IF Len(cands) = 0 THEN <<>>
    ELSE IF cands[1].position = position
         THEN <<cands[1]>> \o Bucket(Tail(cands), position)
         ELSE Bucket(Tail(cands), position)

\* f"{med['name']}: {med['confidence']}%"
medicine_text(med) == med.name \o <<":", " ">> \o FormatInt(med.confidence) \o <<"%">>

\* f"Medicine {position}: [" + ", ".join(medicine_texts) + "]"
group_text(position, group) ==
    <<"M", "e", "d", "i", "c", "i", "n", "e", " ">> \o FormatInt(position)
        \o <<":", " ", "[">>
        \o Join([i \in 1..Len(group) |-> medicine_text(group[i])], <<",", " ">>)
        \o <<"]">>

\* the formatted_groups the function returns, cands being the sorted candidates
formatted_groups(cands) ==
    LET keys == SortedKeys({cands[i].position : i \in 1..Len(cands)})
    IN  [k \in 1..Len(keys) |->
            LET group == Bucket(cands, keys[k])
            IN  <<keys[k], group_text(keys[k], group), group>>]

group_similar_medicines(cands) == formatted_groups(SortByPosition(cands))

-----------------------------------------------------------------------------
(* Model replies. *)

TextReply(t) == [kind |-> "text", text |-> t]

RaiseReply(m) == [kind |-> "raise", msg |-> m]

\* "1. Napa: 80%\n2. Seclo: 70%"
TwoMedicines ==
    <<"1", ".", " ", "N", "a", "p", "a", ":", " ", "8", "0", "%", "\n",
      "2", ".", " ", "S", "e", "c", "l", "o", ":", " ", "7", "0", "%">>

\* "10. Ace: 95%\n2. Seclo: 85%"
TenFirst ==
    <<"1", "0", ".", " ", "A", "c", "e", ":", " ", "9", "5", "%", "\n",
      "2", ".", " ", "S", "e", "c", "l", "o", ":", " ", "8", "5", "%">>

\* free prose, no numbered line
Prose == <<"N", "o", "n", "e", ".">>

\* what an interpretation call can do: return one of these texts, or raise
InterpretationReplies ==
    {TextReply(TenFirst), TextReply(Prose), RaiseReply(<<"5", "0", "3">>)}

\* what a verification call can do
VerificationReplies ==
    {TextReply(<<"N", "a", "p", "a">>), TextReply(<<"A", "c", "e">>),
     RaiseReply(<<"4", "2", "9">>)}

\* what the final synthesis call can return
FinalText == <<"F", "I", "N", "A", "L">>

-----------------------------------------------------------------------------
(* run_parallel_interpretations (thread pool) *)

\* temperatures are kept in tenths: 0.7 is 7 and 0.2 is 2
BaseTemperature == 7

StepTemperature == 2

\* Temperature of a list that repeats the base temperature
Temperature_fixed(i) == BaseTemperature

\* [0.7 + (i * 0.2) for i in range(num_passes)][i]
Temperature(i) == BaseTemperature + i * StepTemperature

Passes(n) == 0..(n - 1)

\* interpretation_requests with a second submission of every temperature
interpretation_requests_resubmitted(n) ==
    [k \in 1..(2 * n) |-> [kind |-> "interpretation", key |-> Temperature((k - 1) % n)]]

\* the model requests of the executor.submit(generate_interpretation, temp, image)
\* calls: one per temperature of the list, in its order
interpretation_requests(n) ==
    [k \in 1..n |-> [kind |-> "interpretation", key |-> Temperature(k - 1)]]

\* collect_interpretation without the try/except: the exception leaves the loop
collect_interpretation_unguarded(res, temp, reply) ==
    IF reply.kind = "text"
    THEN [results |-> Append(res, <<temp, reply.text>>), raised |-> FALSE]
    ELSE [results |-> res, raised |-> TRUE]

\* the body of the as_completed loop for one future: the try appends
\* (temp, result), the except only reports the error.  raised tells whether
\* an exception leaves the loop.
collect_interpretation(res, temp, reply) ==
    IF reply.kind = "text"
    THEN [results |-> Append(res, <<temp, reply.text>>), raised |-> FALSE]
    ELSE [results |-> res, raised |-> FALSE]

RECURSIVE InsertByKey(_, _)
\* sorted with pair inserted after every pair whose key (first component) is <= its key
InsertByKey(sorted, pair) ==
    IF Len(sorted) = 0 THEN <<pair>>
    ELSE IF sorted[1][1] <= pair[1]
         THEN <<sorted[1]>> \o InsertByKey(Tail(sorted), pair)
         ELSE <<pair>> \o sorted

RECURSIVE SortByKey(_)
\* a stable sort of pairs on their first component.  results.sort() compares
\* whole (temp, result) tuples, which differs only between equal temperatures.
SortByKey(pairs) ==
    IF Len(pairs) = 0 THEN <<>>
    ELSE InsertByKey(SortByKey(SubSeq(pairs, 1, Len(pairs) - 1)), pairs[Len(pairs)])

\* sorted_interpretations without results.sort(): the arrival order
sorted_interpretations_arrival(res) == [k \in 1..Len(res) |-> res[k][2]]

\* results.sort(); return [r[1] for r in results]
sorted_interpretations(res) ==
    LET sorted == SortByKey(res)
    IN  [k \in 1..Len(sorted) |-> sorted[k][2]]

\* interpretations_joined of a loop that stops at the first future yielded
interpretations_joined_first(fut) == \E i \in DOMAIN fut : fut[i] = "collected"

\* the as_completed loop ends, and the with block exits, once every future
\* has been yielded
interpretations_joined(fut) == \A i \in DOMAIN fut : fut[i] = "collected"

-----------------------------------------------------------------------------
(* verify_medicine_groups *)

VerifyWorkerCap == 6

\* verify_max_workers of a pool with one worker per prompt
verify_max_workers_uncapped(n) == n

\* max_workers=min(6, len(verification_prompts))
verify_max_workers(n) == Min(VerifyWorkerCap, n)

\* the futures just after the submit loop over n prompts: the pool starts a
\* worker per submission until it has max_workers of them, the other calls
\* wait in its queue
submitted_futures(n) ==
    [k \in 1..n |-> IF k <= verify_max_workers(n) THEN "running" ELSE "queued"]

\* verification_prompts: (position, prompt); the prompt is its template with
\* the position and the group_text filled in, kept here as the group_text
verification_prompts(groups) ==
    [k \in 1..Len(groups) |-> <<groups[k][1], groups[k][2]>>]

\* the model requests of the executor.submit calls: one per prompt, in the
\* order of the prompts
verification_requests(prompts) ==
    [k \in 1..Len(prompts) |-> [kind |-> "verification", key |-> prompts[k][1]]]

ErrorPrefix == <<"E", "r", "r", "o", "r", ":", " ">>

\* collect_verification with the except of the interpretation loop: a failed
\* call is only reported
collect_verification_drop_failed(vres, prompt, reply) ==
    IF reply.kind = "text"
    THEN [results |-> Append(vres, <<prompt[1], reply.text>>), raised |-> FALSE]
    ELSE [results |-> vres, raised |-> FALSE]

\* the body of the as_completed loop for one future: the try appends the
\* (position, result) the lambda returned, the except appends
\* (prompt[0], f"Error: {str(e)}")
collect_verification(vres, prompt, reply) ==
    IF reply.kind = "text"
    THEN [results |-> Append(vres, <<prompt[1], reply.text>>), raised |-> FALSE]
    ELSE [results |-> Append(vres, <<prompt[1], ErrorPrefix \o reply.msg>>), raised |-> FALSE]

\* sorted_verifications without the sort: the arrival order
sorted_verifications_arrival(vres) == vres

\* verification_results.sort(key=lambda x: x[0])
sorted_verifications(vres) == SortByKey(vres)

verifications_joined(fut) == \A k \in DOMAIN fut : fut[k] = "collected"

\* the queued future a worker that has just finished future k takes next
\* (the work queue is first in, first out), 0 when the queue is empty
NextQueued(fut) ==
    IF \E j \in DOMAIN fut : fut[j] = "queued"
    THEN CHOOSE j \in DOMAIN fut : fut[j] = "queued" /\ \A h \in DOMAIN fut : fut[h] = "queued" => j <= h
    ELSE 0

-----------------------------------------------------------------------------
(* format_final_results *)

DashCount == 40

PositionHeader == <<"\n", "-", "-", "-", " ", "M", "e", "d", "i", "c", "i", "n", "e", " ",
                    "P", "o", "s", "i", "t", "i", "o", "n", " ">>

PositionHeaderEnd == <<" ", "-", "-", "-", "\n">>

RECURSIVE formatted_results(_)
\* the loop that builds formatted_results; the prompt template around it is fixed
formatted_results(vres) ==
    IF Len(vres) = 0 THEN <<>>
    ELSE PositionHeader \o FormatInt(vres[1][1]) \o PositionHeaderEnd
            \o vres[1][2] \o <<"\n">>
            \o [i \in 1..DashCount |-> "-"] \o <<"\n">>
            \o formatted_results(Tail(vres))

-----------------------------------------------------------------------------
(* v2_adding_google_search_on_v1.py: the names generate_final_output        *)
(* verifies, and the dict it keeps the verification results in.             *)

ErrorVerifyingPrefix ==
    <<"E", "r", "r", "o", "r", " ", "v", "e", "r", "i", "f", "y", "i", "n", "g", " ", "m",
    "e", "d", "i", "c", "i", "n", "e", ":", " ">>

\* verify_medicine_name on the outcome of its generate_content call: the try
\* returns response.text, the except returns f"Error verifying medicine: {str(e)}"
verify_medicine_name(reply) ==
    IF reply.kind = "text" THEN reply.text ELSE ErrorVerifyingPrefix \o reply.msg

\* does s hold the text p from index i on?
HasTextAt(s, i, p) == i + Len(p) - 1 <= Len(s) /\ SubSeq(s, i, i + Len(p) - 1) = p

RECURSIVE NameRun(_, _)
\* length of the longest run of characters [^\n\(] of s that starts at index i
NameRun(s, i) ==
    IF i <= Len(s) /\ s[i] \notin {"\n", "("} THEN 1 + NameRun(s, i + 1) ELSE 0

MedicineLabel == <<"M", "e", "d", "i", "c", "i", "n", "e", " ">>

NameLabel == <<"-", " ", "N", "a", "m", "e", ":", " ">>

\* r"Medicine \d+:\s*\n\s*- Name: ([^\n\(]+)" tried at index i.  Every run is
\* greedy and none can give a character back: the item after \d+ is ":", the
\* item after \s*\n\s* is "-", so the two \s* and the \n between them take the
\* whole whitespace run after the colon, which must hold a "\n".
name_match(s, i) ==
    LET d == DigitRun(s, i + Len(MedicineLabel))
        c == i + Len(MedicineLabel) + d
        w == WsRun(s, c + 1)
        g == c + 1 + w + Len(NameLabel)
        r == NameRun(s, g)
    IN  IF /\ HasTextAt(s, i, MedicineLabel)
           /\ d >= 1
           /\ c <= Len(s)
           /\ s[c] = ":"
           /\ \E j \in (c + 1)..(c + w) : s[j] = "\n"
           /\ HasTextAt(s, c + 1 + w, NameLabel)
           /\ r >= 1
        THEN [matched |-> TRUE, group1 |-> SubSeq(s, g, g + r - 1), next |-> g + r]
        ELSE NoMatch

RECURSIVE findall_names(_, _)
\* re.findall(pattern, s) from index i on: the scan resumes where a match ended
findall_names(s, i) ==
    IF i > Len(s) THEN <<>>
    ELSE LET m == name_match(s, i)
         IN  IF m.matched
             THEN <<m.group1>> \o findall_names(s, m.next)
             ELSE findall_names(s, i + 1)

\* medicine_names = re.findall(pattern, consolidated_text);
\* return [name.strip() for name in medicine_names]
extract_medicines_from_consolidated(consolidated_text) ==
    LET found == findall_names(consolidated_text, 1)
    IN  [k \in 1..Len(found) |-> Strip(found[k])]

\* A dict is kept as the sequence of its (key, value) items in insertion order.

\* dict_set of a list of pairs: every assignment adds an item
dict_set_append(d, key, value) == Append(d, <<key, value>>)

\* d[key] = value: a key already present keeps its place and takes the value
dict_set(d, key, value) ==
    IF \E k \in 1..Len(d) : d[k][1] = key
    THEN [k \in 1..Len(d) |-> IF d[k][1] = key THEN <<key, value>> ELSE d[k]]
    ELSE Append(d, <<key, value>>)

RECURSIVE dict_of_zip(_, _)
\* {name: result for name, result in zip(names, res)}
dict_of_zip(names, res) ==
    IF Len(names) = 0 \/ Len(res) = 0 THEN <<>>
    ELSE LET n == Min(Len(names), Len(res))
         IN  dict_set(dict_of_zip(SubSeq(names, 1, n - 1), SubSeq(res, 1, n - 1)),
                      names[n], res[n])

\* the frame before generate_final_output is called
NoFinalOutput ==
    [pc |-> "none", variant |-> "none", consolidated_text |-> <<>>, medicine_names |-> <<>>,
     tasks |-> <<>>, replies |-> <<>>, returned |-> <<>>, verification_results |-> <<>>]

-----------------------------------------------------------------------------
(* the start of the script: the credential and the model client *)

\* os.getenv("GOOGLE_API_KEY"): the variable's value, None when it is not
\* set.  os.getenv never raises KeyError (only os.environ[...] does).
getenv(environ) ==
    [value |-> IF environ = "set" THEN "key" ELSE "None", raised |-> FALSE]

\* the script has started with the credential set: the client exists and
\* main() draws the page
StartedUp ==
    [pc |-> "ready", environ |-> "set", API_KEY |-> "key", error_shown |-> FALSE,
     client |-> "constructed"]

\* try: API_KEY = os.getenv("GOOGLE_API_KEY")
\* except KeyError: st.error("Please set the GOOGLE_API_KEY ..."); st.stop()
ReadCredential ==
    /\ startup.pc = "importing"
    /\ LET got == getenv(startup.environ)
       IN  startup' = IF got.raised
                      THEN [startup EXCEPT !.error_shown = TRUE, !.pc = "stopped"]
                      ELSE [startup EXCEPT !.API_KEY = got.value, !.pc = "key_read"]
    /\ UNCHANGED <<final_output, pipeline>>

\* client = genai.Client(api_key=API_KEY).  What the library does with
\* api_key=None is not in the source: it builds a client (from other settings
\* it finds) or raises, and nothing in the script catches that.
ConstructClient ==
    /\ startup.pc = "key_read"
    /\ \/ startup' = [startup EXCEPT !.client = "constructed", !.pc = "ready"]
       \/ /\ startup.API_KEY = "None"
          /\ startup' = [startup EXCEPT !.pc = "failed"]
    /\ UNCHANGED <<final_output, pipeline>>

-----------------------------------------------------------------------------
(* main *)

\* "```\nFINAL PRESCRIPTION MEDICINES:\n\nNo medicines were identified in the prescription.\n```"
NoMedicinesReport == <<"No medicines were identified in the prescription.">>

\* after_extraction with the test inverted
after_extraction_inverted(cands) == IF Len(cands) > 0 THEN "NoMedicinesFound" ELSE "Grouping"

\* after_extraction of a main that verifies the candidates without grouping them
after_extraction_skips_grouping(cands) ==
    IF Len(cands) = 0 THEN "NoMedicinesFound" ELSE "Verifying"

\* after_extraction of a main without the early return
after_extraction_always_groups(cands) == "Grouping"

\* if not medicine_candidates: ... return
after_extraction(cands) == IF Len(cands) = 0 THEN "NoMedicinesFound" ELSE "Grouping"

Init ==
    /\ pc = "Idle"
    /\ uncaught = FALSE
    /\ num_passes = 0
    /\ ireply = <<>>
    /\ ifut = <<>>
    /\ iorder = <<>>
    /\ results = <<>>
    /\ all_interpretations = <<>>
    /\ medicine_candidates = <<>>
    /\ medicine_groups = <<>>
    /\ vreply = <<>>
    /\ vfut = <<>>
    /\ vorder = <<>>
    /\ verification_results = <<>>
    /\ final_call = "none"
    /\ final_prompt = <<>>
    /\ final_result = <<>>
    /\ requests = <<>>
    /\ gpc = "idle"
    /\ gtask = <<>>
    /\ gresults = <<>>
    /\ startup = StartedUp
    /\ final_output = NoFinalOutput

\* "Process Prescription" is pressed: run_parallel_interpretations submits one
\* generate_interpretation call per temperature to a pool of num_passes workers
StartRun ==
    /\ startup.pc = "ready"
    /\ pc = "Idle"
    /\ \E n \in 1..MaxPasses :
        \E replies \in [Passes(n) -> InterpretationReplies] :
            /\ num_passes' = n
            /\ ireply' = replies
            /\ ifut' = [i \in Passes(n) |-> "running"]
            /\ requests' = requests \o interpretation_requests(n)
    /\ iorder' = <<>>
    /\ results' = <<>>
    /\ pc' = "Interpreting"
    /\ UNCHANGED <<startup, final_output,
                   uncaught, all_interpretations, medicine_candidates, medicine_groups,
                   vreply, vfut, vorder, verification_results, final_call, final_prompt,
                   final_result, gpc, gtask, gresults>>

\* a worker's generate_interpretation call returns or raises
InterpretationCompletes(i) ==
    /\ ifut[i] = "running"
    /\ ifut' = [ifut EXCEPT ![i] = "done"]
    /\ UNCHANGED <<startup, final_output,
                   pc, uncaught, num_passes, ireply, iorder, results, all_interpretations,
                   medicine_candidates, medicine_groups, vreply, vfut, vorder,
                   verification_results, final_call, final_prompt, final_result,
                   requests, gpc, gtask, gresults>>

\* as_completed yields a finished future and the loop body handles it
InterpretationCollected(i) ==
    /\ pc = "Interpreting"
    /\ ~uncaught
    /\ ifut[i] = "done"
    /\ ifut' = [ifut EXCEPT ![i] = "collected"]
    /\ iorder' = Append(iorder, i)
    /\ LET handled == collect_interpretation(results, Temperature(i), ireply[i])
       IN  /\ results' = handled.results
           /\ uncaught' = handled.raised
    /\ UNCHANGED <<startup, final_output,
                   pc, num_passes, ireply, all_interpretations,
                   medicine_candidates, medicine_groups, vreply, vfut, vorder,
                   verification_results, final_call, final_prompt, final_result,
                   requests, gpc, gtask, gresults>>

\* the loop and the with block end; results.sort(); the list is returned to main
InterpretationsReturn ==
    /\ pc = "Interpreting"
    /\ ~uncaught
    /\ interpretations_joined(ifut)
    /\ results' = SortByKey(results)
    /\ all_interpretations' = sorted_interpretations(results)
    /\ pc' = "Extracting"
    /\ UNCHANGED <<startup, final_output,
                   uncaught, num_passes, ireply, ifut, iorder, medicine_candidates,
                   medicine_groups, vreply, vfut, vorder, verification_results, final_call,
                   final_prompt, final_result, requests, gpc, gtask, gresults>>

\* extract_medicine_candidates, then the check for no candidates
Extract ==
    /\ pc = "Extracting"
    /\ ~uncaught
    /\ medicine_candidates' = extract_medicine_candidates(all_interpretations)
    /\ pc' = after_extraction(medicine_candidates')
    /\ final_result' = IF pc' = "NoMedicinesFound" THEN NoMedicinesReport ELSE final_result
    /\ UNCHANGED <<startup, final_output,
                   uncaught, num_passes, ireply, ifut, iorder, results, all_interpretations,
                   medicine_groups, vreply, vfut, vorder, verification_results, final_call,
                   final_prompt, requests, gpc, gtask, gresults>>

\* group_similar_medicines: it sorts main's list in place
Group ==
    /\ pc = "Grouping"
    /\ ~uncaught
    /\ medicine_candidates' = SortByPosition(medicine_candidates)
    /\ medicine_groups' = group_similar_medicines(medicine_candidates)
    /\ pc' = "Verifying"
    /\ UNCHANGED <<startup, final_output,
                   uncaught, num_passes, ireply, ifut, iorder, results, all_interpretations,
                   vreply, vfut, vorder, verification_results, final_call, final_prompt,
                   final_result, requests, gpc, gtask, gresults>>

\* verify_medicine_groups builds the prompts and submits one call per prompt
VerificationsSubmitted ==
    /\ pc = "Verifying"
    /\ ~uncaught
    /\ Len(vfut) = 0
    /\ LET prompts == verification_prompts(medicine_groups)
           n == Len(prompts)
       IN  /\ n >= 1
           /\ \E replies \in [1..n -> VerificationReplies] : vreply' = replies
           /\ vfut' = submitted_futures(n)
           /\ requests' = requests \o verification_requests(prompts)
    /\ vorder' = <<>>
    /\ verification_results' = <<>>
    /\ UNCHANGED <<startup, final_output,
                   pc, uncaught, num_passes, ireply, ifut, iorder, results, all_interpretations,
                   medicine_candidates, medicine_groups, final_call, final_prompt,
                   final_result, gpc, gtask, gresults>>

\* a worker's verification call returns or raises; the worker takes the next
\* queued call, if any
VerificationCompletes(k) ==
    /\ vfut[k] = "running"
    /\ LET q == NextQueued(vfut)
       IN  vfut' = [j \in DOMAIN vfut |->
                       IF j = k THEN "done" ELSE IF j = q THEN "running" ELSE vfut[j]]
    /\ UNCHANGED <<startup, final_output,
                   pc, uncaught, num_passes, ireply, ifut, iorder, results, all_interpretations,
                   medicine_candidates, medicine_groups, vreply, vorder, verification_results,
                   final_call, final_prompt, final_result, requests, gpc, gtask, gresults>>

\* as_completed yields a finished future and the loop body handles it
VerificationCollected(k) ==
    /\ pc = "Verifying"
    /\ ~uncaught
    /\ vfut[k] = "done"
    /\ vfut' = [vfut EXCEPT ![k] = "collected"]
    /\ vorder' = Append(vorder, k)
    /\ LET handled == collect_verification(verification_results,
                                           verification_prompts(medicine_groups)[k], vreply[k])
       IN  /\ verification_results' = handled.results
           /\ uncaught' = handled.raised
    /\ UNCHANGED <<startup, final_output,
                   pc, num_passes, ireply, ifut, iorder, results, all_interpretations,
                   medicine_candidates, medicine_groups, vreply, final_call,
                   final_prompt, final_result, requests, gpc, gtask, gresults>>

\* the loop and the with block end; the results are sorted and returned to main
VerificationsReturn ==
    /\ pc = "Verifying"
    /\ ~uncaught
    /\ Len(vfut) > 0
    /\ verifications_joined(vfut)
    /\ verification_results' = sorted_verifications(verification_results)
    /\ pc' = "Synthesizing"
    /\ UNCHANGED <<startup, final_output,
                   uncaught, num_passes, ireply, ifut, iorder, results, all_interpretations,
                   medicine_candidates, medicine_groups, vreply, vfut, vorder, final_call,
                   final_prompt, final_result, requests, gpc, gtask, gresults>>

\* format_final_results builds the prompt and issues the final request
Synthesize ==
    /\ pc = "Synthesizing"
    /\ ~uncaught
    /\ final_call = "none"
    /\ final_prompt' = formatted_results(verification_results)
    /\ final_call' = "inflight"
    /\ requests' = Append(requests, [kind |-> "final", key |-> 0])
    /\ UNCHANGED <<startup, final_output,
                   pc, uncaught, num_passes, ireply, ifut, iorder, results, all_interpretations,
                   medicine_candidates, medicine_groups, vreply, vfut, vorder,
                   verification_results, final_result, gpc, gtask, gresults>>

\* the final request returns: main displays response.text
FinalReturns ==
    /\ pc = "Synthesizing"
    /\ final_call = "inflight"
    /\ final_call' = "returned"
    /\ final_result' = FinalText
    /\ pc' = "Done"
    /\ UNCHANGED <<startup, final_output,
                   uncaught, num_passes, ireply, ifut, iorder, results, all_interpretations,
                   medicine_candidates, medicine_groups, vreply, vfut, vorder,
                   verification_results, final_prompt, requests, gpc, gtask, gresults>>

\* the final request raises: nothing catches it, main ends in this stage
FinalRaises ==
    /\ pc = "Synthesizing"
    /\ final_call = "inflight"
    /\ final_call' = "raised"
    /\ uncaught' = TRUE
    /\ UNCHANGED <<startup, final_output,
                   pc, num_passes, ireply, ifut, iorder, results, all_interpretations,
                   medicine_candidates, medicine_groups, vreply, vfut, vorder,
                   verification_results, final_prompt, final_result, requests,
                   gpc, gtask, gresults>>

Next ==
    \/ StartRun
    \/ \E i \in DOMAIN ifut : InterpretationCompletes(i)
    \/ \E i \in DOMAIN ifut : InterpretationCollected(i)
    \/ InterpretationsReturn
    \/ Extract
    \/ Group
    \/ VerificationsSubmitted
    \/ \E k \in DOMAIN vfut : VerificationCompletes(k)
    \/ \E k \in DOMAIN vfut : VerificationCollected(k)
    \/ VerificationsReturn
    \/ Synthesize
    \/ FinalReturns
    \/ FinalRaises

Spec == Init /\ [][Next]_vars

\* the script starts with the credential set or absent, then runs the pipeline
InitStartup ==
    /\ startup \in {[pc |-> "importing", environ |-> environ, API_KEY |-> "unbound",
                     error_shown |-> FALSE, client |-> "none"] :
                        environ \in {"set", "absent"}}
    /\ final_output = NoFinalOutput
    /\ pc = "Idle"
    /\ uncaught = FALSE
    /\ num_passes = 0
    /\ ireply = <<>>
    /\ ifut = <<>>
    /\ iorder = <<>>
    /\ results = <<>>
    /\ all_interpretations = <<>>
    /\ medicine_candidates = <<>>
    /\ medicine_groups = <<>>
    /\ vreply = <<>>
    /\ vfut = <<>>
    /\ vorder = <<>>
    /\ verification_results = <<>>
    /\ final_call = "none"
    /\ final_prompt = <<>>
    /\ final_result = <<>>
    /\ requests = <<>>
    /\ gpc = "idle"
    /\ gtask = <<>>
    /\ gresults = <<>>

NextStartup == ReadCredential \/ ConstructClient \/ Next

SpecStartup == InitStartup /\ [][NextStartup]_vars

-----------------------------------------------------------------------------
(* The extraction and the grouping on their own, over bounded inputs. *)

Alphabet == {"1", ".", " ", "a", ":", "%"}

\* every line of at most MaxLineLen characters of Alphabet
ShortLines == UNION {[1..n -> Alphabet] : n \in 0..MaxLineLen}

\* lines that match, nearly match or do not match the pattern
LinePool ==
    { <<"1", ".", " ", "N", "a", ":", " ", "8", "0", "%">>,            \* "1. Na: 80%"
      <<"1", ".", " ", "N", "a", "p", ":", " ", "6", "0", "%">>,       \* "1. Nap: 60%"
      <<"2", ".", " ", "S", "e", ":", "7", "0", "%">>,                 \* "2. Se:70%"
      <<"1", "0", ".", "\t", "X", " ", ":", " ", "1", "5", "0", "%">>, \* "10.\tX : 150%"
      <<"0", "2", ".", " ", " ", "N", "a", ":", " ", "9", "%", " ", "?">>, \* "02.  Na: 9% ?"
      <<"1", ".", " ", "A", ":", " ", "5", "%", ":", " ", "6", "%">>,  \* "1. A: 5%: 6%"
      <<"1", ".", " ", "B", ":", " ", "m", "g", ":", " ", "7", "%">>,  \* "1. B: mg: 7%"
      <<"1", ".", "N", "a", ":", " ", "8", "0", "%">>,                 \* "1.Na: 80%"
      <<" ", "1", ".", " ", "N", "a", ":", " ", "8", "%">>,            \* " 1. Na: 8%"
      <<"1", ".", " ", "N", "a", ":", " ", "8", "0", " ", "%">>,       \* "1. Na: 80 %"
      <<"1", ")", " ", "N", "a", ":", " ", "8", "0", "%">>,            \* "1) Na: 80%"
      <<"N", "a", ":", " ", "8", "0", "%">>,                           \* "Na: 80%"
      <<>> }

RECURSIVE Compose(_, _, _)
\* the interpretations made of the lines ls from index i on: a cut after line
\* i ends an interpretation, otherwise the next line follows a "\n"
Compose(ls, cuts, i) ==
    IF i > Len(ls) THEN <<>>
    ELSE LET rest == Compose(ls, cuts, i + 1)
         IN  IF i = Len(ls) \/ i \in cuts
             THEN <<ls[i]>> \o rest
             ELSE <<ls[i] \o <<"\n">> \o rest[1]>> \o Tail(rest)

\* ["1. Napa: 80%\n2. Seclo: 70%", "1. Napa: 90%", "1. Nap: 60%\n2. Seclo: 85%"]
ExampleInput ==
    << TwoMedicines,
       <<"1", ".", " ", "N", "a", "p", "a", ":", " ", "9", "0", "%">>,
       <<"1", ".", " ", "N", "a", "p", ":", " ", "6", "0", "%", "\n",
         "2", ".", " ", "S", "e", "c", "l", "o", ":", " ", "8", "5", "%">> >>

\* the inputs explored: one short line, or up to MaxPoolLines lines of
\* LinePool spread over one or more interpretations, or the worked example
IsExtractionInput(interpretations) ==
    \/ \E line \in ShortLines : interpretations = <<line>>
    \/ \E n \in 1..MaxPoolLines :
         \E ls \in [1..n -> LinePool] :
           \E cuts \in SUBSET (1..(n - 1)) : interpretations = Compose(ls, cuts, 1)
    \/ interpretations \in {ExampleInput, <<>>}

\* main has just received all_interpretations
InitExtraction ==
    /\ pc = "Extracting"
    /\ IsExtractionInput(all_interpretations)
    /\ uncaught = FALSE
    /\ num_passes = 0
    /\ ireply = <<>>
    /\ ifut = <<>>
    /\ iorder = <<>>
    /\ results = <<>>
    /\ medicine_candidates = <<>>
    /\ medicine_groups = <<>>
    /\ vreply = <<>>
    /\ vfut = <<>>
    /\ vorder = <<>>
    /\ verification_results = <<>>
    /\ final_call = "none"
    /\ final_prompt = <<>>
    /\ final_result = <<>>
    /\ requests = <<>>
    /\ gpc = "idle"
    /\ gtask = <<>>
    /\ gresults = <<>>
    /\ startup = StartedUp
    /\ final_output = NoFinalOutput

NextExtraction == Extract \/ Group

SpecExtraction == InitExtraction /\ [][NextExtraction]_vars

-----------------------------------------------------------------------------
(* v1_async_interpretation.py: run_parallel_interpretations with            *)
(* asyncio.gather, run on the same per-call outcomes as the thread pool.    *)

\* results = await asyncio.gather(*tasks): the results in the order of the tasks
gather_results(n, replies) == [k \in 1..n |-> replies[k - 1].text]

\* the temperature v1's generate_interpretation and v2's
\* run_parallel_interpretations have in place of the varied one: 0.2
FixedTemperature == 2

\* the temperature of the request v1's generate_interpretation(temperature)
\* sends: temperature=0.2, the parameter being commented out
generate_interpretation_v1(temperature) == FixedTemperature

\* the temperature of the request v2's generate_interpretation(temperature) sends
generate_interpretation_v2(temperature) == temperature

\* the requests of the tasks run_parallel_interpretations creates.
\* v1: [generate_interpretation(temp) for temp in temperatures]
\* v2: [generate_interpretation(0.2) for _ in range(num_passes)]
gather_requests(variant, n) ==
    [k \in 1..n |->
        [kind |-> variant,
         key  |-> IF variant = "v1_interpretation"
                  THEN generate_interpretation_v1(Temperature(k - 1))
                  ELSE generate_interpretation_v2(FixedTemperature)]]

\* run_parallel_interpretations of v1 or of v2 creates its tasks and gather
\* schedules them all
GatherStarts ==
    /\ gpc = "idle"
    /\ pc # "Idle"
    /\ gtask' = [i \in Passes(num_passes) |-> "running"]
    /\ gpc' = "awaiting"
    /\ \E variant \in {"v1_interpretation", "v2_interpretation"} :
         requests' = requests \o gather_requests(variant, num_passes)
    /\ UNCHANGED <<startup, final_output,
                   pc, uncaught, num_passes, ireply, ifut, iorder, results,
                   all_interpretations, medicine_candidates, medicine_groups, vreply,
                   vfut, vorder, verification_results, final_call, final_prompt,
                   final_result, gresults>>

\* a task's generate_content call returns or raises
GatherTaskCompletes(i) ==
    /\ gtask[i] = "running"
    /\ gtask' = [gtask EXCEPT ![i] = "done"]
    /\ UNCHANGED <<startup, final_output,
                   pc, uncaught, num_passes, ireply, ifut, iorder, results,
                   all_interpretations, medicine_candidates, medicine_groups, vreply,
                   vfut, vorder, verification_results, final_call, final_prompt,
                   final_result, requests, gpc, gresults>>

\* every task has returned: gather returns their results
GatherReturns ==
    /\ gpc = "awaiting"
    /\ \A i \in DOMAIN gtask : gtask[i] = "done" /\ ireply[i].kind = "text"
    /\ gresults' = gather_results(num_passes, ireply)
    /\ gpc' = "returned"
    /\ UNCHANGED <<startup, final_output,
                   pc, uncaught, num_passes, ireply, ifut, iorder, results,
                   all_interpretations, medicine_candidates, medicine_groups, vreply,
                   vfut, vorder, verification_results, final_call, final_prompt,
                   final_result, requests, gtask>>

\* a task has raised: gather (return_exceptions is not set) raises that
\* exception at once into run_parallel_interpretations, which has no handler,
\* nor has main
GatherRaises ==
    /\ gpc = "awaiting"
    /\ \E i \in DOMAIN gtask : gtask[i] = "done" /\ ireply[i].kind = "raise"
    /\ gpc' = "raised"
    /\ UNCHANGED <<startup, final_output,
                   pc, uncaught, num_passes, ireply, ifut, iorder, results,
                   all_interpretations, medicine_candidates, medicine_groups, vreply,
                   vfut, vorder, verification_results, final_call, final_prompt,
                   final_result, requests, gtask, gresults>>

NextFanOuts ==
    \/ StartRun
    \/ \E i \in DOMAIN ifut : InterpretationCompletes(i)
    \/ \E i \in DOMAIN ifut : InterpretationCollected(i)
    \/ InterpretationsReturn
    \/ GatherStarts
    \/ \E i \in DOMAIN gtask : GatherTaskCompletes(i)
    \/ GatherReturns
    \/ GatherRaises

\* both interpretation fan-outs, on the same outcomes
SpecFanOuts == Init /\ [][NextFanOuts]_vars

-----------------------------------------------------------------------------
(* v2_adding_google_search_on_v1.py: generate_final_output, in the variant  *)
(* that verifies the names in a loop and in the variant that gathers them.  *)

\* most blocks of NameBlocks composed into a consolidated text
MaxBlocks == 3

\* pieces of a consolidated text: blocks in the requested format, with and
\* without a parenthesis after the name, and blocks the pattern does not match
NameBlocks ==
    {
      \* Medicine 1:\n- Name: Napa (80%)\n
      <<"M", "e", "d", "i", "c", "i", "n", "e", " ", "1", ":", "\n", "-", " ", "N", "a",
      "m", "e", ":", " ", "N", "a", "p", "a", " ", "(", "8", "0", "%", ")", "\n">>,
      \* Medicine 2:\n  - Name: Napa\n
      <<"M", "e", "d", "i", "c", "i", "n", "e", " ", "2", ":", "\n", " ", " ", "-", " ",
      "N", "a", "m", "e", ":", " ", "N", "a", "p", "a", "\n">>,
      \* Medicine 3: \n\n- Name:  Ace \n
      <<"M", "e", "d", "i", "c", "i", "n", "e", " ", "3", ":", " ", "\n", "\n", "-", " ",
      "N", "a", "m", "e", ":", " ", " ", "A", "c", "e", " ", "\n">>,
      \* Medicine 4:\n- Dose: 1\n
      <<"M", "e", "d", "i", "c", "i", "n", "e", " ", "4", ":", "\n", "-", " ", "D", "o",
      "s", "e", ":", " ", "1", "\n">>,
      \* Medicine 12:\n- Name: (Ace)\n
      <<"M", "e", "d", "i", "c", "i", "n", "e", " ", "1", "2", ":", "\n", "-", " ", "N",
      "a", "m", "e", ":", " ", "(", "A", "c", "e", ")", "\n">>,
      \* Medicine 5: - Name: Zed\n
      <<"M", "e", "d", "i", "c", "i", "n", "e", " ", "5", ":", " ", "-", " ", "N", "a",
      "m", "e", ":", " ", "Z", "e", "d", "\n">> }

\* the consolidated texts explored: up to MaxBlocks blocks, one after the other
ConsolidatedTexts ==
    {Join(bs, <<>>) : bs \in UNION {[1..n -> NameBlocks] : n \in 0..MaxBlocks}}

\* generate_final_output has just received consolidated_text: the run is in
\* its verification stage
InitFinalOutput ==
    /\ final_output \in
         {[NoFinalOutput EXCEPT !.pc = "consolidated", !.variant = variant,
                                !.consolidated_text = text] :
             variant \in {"loop", "gather"}, text \in ConsolidatedTexts}
    /\ pc = "Verifying"
    /\ uncaught = FALSE
    /\ num_passes = 0
    /\ ireply = <<>>
    /\ ifut = <<>>
    /\ iorder = <<>>
    /\ results = <<>>
    /\ all_interpretations = <<>>
    /\ medicine_candidates = <<>>
    /\ medicine_groups = <<>>
    /\ vreply = <<>>
    /\ vfut = <<>>
    /\ vorder = <<>>
    /\ verification_results = <<>>
    /\ final_call = "none"
    /\ final_prompt = <<>>
    /\ final_result = <<>>
    /\ requests = <<>>
    /\ gpc = "idle"
    /\ gtask = <<>>
    /\ gresults = <<>>
    /\ startup = StartedUp

\* the names are extracted.  The loop calls verify_medicine_name for the first
\* name and awaits it; the gather variant creates one coroutine per name and
\* asyncio.gather schedules them all.  With no name the dict stays empty.
ExtractNames ==
    /\ final_output.pc = "consolidated"
    /\ LET names == extract_medicines_from_consolidated(final_output.consolidated_text)
           n == Len(names)
       IN  final_output' =
             [final_output EXCEPT
                !.medicine_names = names,
                !.tasks = [k \in 1..n |->
                              IF final_output.variant = "loop" /\ k > 1
                              THEN "pending" ELSE "running"],
                !.replies = [k \in 1..n |-> [kind |-> "none"]],
                !.returned = [k \in 1..n |-> <<>>],
                !.pc = IF n = 0 THEN "verified" ELSE "verifying"]
    /\ UNCHANGED <<startup, pipeline>>

\* loop variant: the awaited call returns or raises, verify_medicine_name
\* returns, verification_results[name] = verification_result, and the loop
\* calls verify_medicine_name for the next name, if any
LoopVerificationReturns ==
    /\ final_output.pc = "verifying"
    /\ final_output.variant = "loop"
    /\ \E k \in DOMAIN final_output.tasks :
         /\ final_output.tasks[k] = "running"
         /\ \E reply \in VerificationReplies :
              LET result == verify_medicine_name(reply)
                  n == Len(final_output.tasks)
              IN  final_output' =
                    [final_output EXCEPT
                       !.tasks = [j \in 1..n |->
                                     IF j = k THEN "done"
                                     ELSE IF j = k + 1 THEN "running" ELSE @[j]],
                       !.replies[k] = reply,
                       !.returned[k] = result,
                       !.verification_results =
                           dict_set(@, final_output.medicine_names[k], result),
                       !.pc = IF k = n THEN "verified" ELSE "verifying"]
    /\ UNCHANGED <<startup, pipeline>>

\* gather variant: the call of task k returns or raises and verify_medicine_name
\* returns
NameTaskCompletes(k) ==
    /\ final_output.pc = "verifying"
    /\ final_output.variant = "gather"
    /\ final_output.tasks[k] = "running"
    /\ \E reply \in VerificationReplies :
         final_output' = [final_output EXCEPT
                            !.tasks[k] = "done",
                            !.replies[k] = reply,
                            !.returned[k] = verify_medicine_name(reply)]
    /\ UNCHANGED <<startup, pipeline>>

\* gather variant: every task has returned; gather returns the list of their
\* results and the dict comprehension over zip(medicine_names, ...) is built
NameGatherReturns ==
    /\ final_output.pc = "verifying"
    /\ final_output.variant = "gather"
    /\ \A k \in DOMAIN final_output.tasks : final_output.tasks[k] = "done"
    /\ final_output' = [final_output EXCEPT
                          !.verification_results =
                              dict_of_zip(final_output.medicine_names, final_output.returned),
                          !.pc = "verified"]
    /\ UNCHANGED <<startup, pipeline>>

NextFinalOutput ==
    \/ ExtractNames
    \/ LoopVerificationReturns
    \/ \E k \in DOMAIN final_output.tasks : NameTaskCompletes(k)
    \/ NameGatherReturns

SpecFinalOutput == InitFinalOutput /\ [][NextFinalOutput]_vars

-----------------------------------------------------------------------------
(* The dispatch of every fan-out and its workers, without the loops that    *)
(* collect the results: the thread pools of streamlit_demo_0.py and the     *)
(* per-name verification of v2.                                             *)

\* most groups handed to verify_medicine_groups
MaxGroups == 7

\* one candidate at each of the positions 1..n
CandidatesAt(n) == [k \in 1..n |-> [name |-> <<"X">>, confidence |-> 50, position |-> k]]

\* verify_medicine_groups has just submitted the prompts of 1..MaxGroups
\* groups, and every call is going to return
InitVerificationsSubmitted ==
    /\ \E n \in 1..MaxGroups :
         /\ medicine_candidates = CandidatesAt(n)
         /\ medicine_groups = group_similar_medicines(CandidatesAt(n))
         /\ vreply = [k \in 1..n |-> TextReply(<<"N", "a", "p", "a">>)]
         /\ vfut = submitted_futures(n)
         /\ requests = verification_requests(
                          verification_prompts(group_similar_medicines(CandidatesAt(n))))
    /\ pc = "Verifying"
    /\ uncaught = FALSE
    /\ num_passes = 0
    /\ ireply = <<>>
    /\ ifut = <<>>
    /\ iorder = <<>>
    /\ results = <<>>
    /\ all_interpretations = <<>>
    /\ vorder = <<>>
    /\ verification_results = <<>>
    /\ final_call = "none"
    /\ final_prompt = <<>>
    /\ final_result = <<>>
    /\ gpc = "idle"
    /\ gtask = <<>>
    /\ gresults = <<>>
    /\ startup = StartedUp
    /\ final_output = NoFinalOutput

InitDispatch == Init \/ InitVerificationsSubmitted \/ InitFinalOutput

NextDispatch ==
    \/ StartRun
    \/ \E i \in DOMAIN ifut : InterpretationCompletes(i)
    \/ \E k \in DOMAIN vfut : VerificationCompletes(k)
    \/ ExtractNames
    \/ LoopVerificationReturns
    \/ \E k \in DOMAIN final_output.tasks : NameTaskCompletes(k)
    \/ NameGatherReturns

SpecDispatch == InitDispatch /\ [][NextDispatch]_vars

-----------------------------------------------------------------------------
(* Properties. *)

RECURSIVE TextsUpTo(_, _)
\* the texts of the passes 0..n-1 that returned one, in ascending pass order
TextsUpTo(replies, n) ==
    IF n = 0 THEN <<>>
    ELSE TextsUpTo(replies, n - 1)
            \o (IF replies[n - 1].kind = "text" THEN <<replies[n - 1].text>> ELSE <<>>)

\* C1: whatever the order in which the concurrent calls complete, the list
\* run_parallel_interpretations returns holds the texts of the successful
\* passes in ascending order of their request temperature.
C1_OrderedByTemperature ==
    pc \notin {"Idle", "Interpreting"} =>
        /\ all_interpretations = TextsUpTo(ireply, num_passes)
        /\ \A k \in 1..Len(results), l \in 1..Len(results) :
              k < l => results[k][1] < results[l][1]

\* two different texts were collected against the temperature order, and the
\* list has been returned
C1_Witness ==
    /\ pc = "Extracting"
    /\ Len(iorder) >= 2
    /\ iorder[1] > iorder[2]
    /\ ireply[iorder[1]].kind = "text"
    /\ ireply[iorder[2]].kind = "text"
    /\ ireply[iorder[1]] # ireply[iorder[2]]

FailedPasses == {i \in Passes(num_passes) : ireply[i].kind = "raise"}

\* C2: with N calls of which F raise, run_parallel_interpretations returns
\* exactly N-F interpretations, each the text of a successful call, and no
\* exception leaves it.
C2_FailedCallsDropped ==
    /\ pc \notin {"Idle", "Interpreting"} =>
          /\ Len(all_interpretations) = num_passes - Cardinality(FailedPasses)
          /\ \A k \in 1..Len(all_interpretations) :
                \E i \in Passes(num_passes) \ FailedPasses :
                    all_interpretations[k] = ireply[i].text
          /\ \A i \in Passes(num_passes) \ FailedPasses :
                \E k \in 1..Len(all_interpretations) :
                    all_interpretations[k] = ireply[i].text
    /\ pc \in {"Interpreting", "Extracting"} => ~uncaught

\* a call raised, was collected first, and the others' texts were returned
C2_Witness ==
    /\ pc = "Extracting"
    /\ num_passes >= 2
    /\ Cardinality(FailedPasses) = 1
    /\ iorder[1] \in FailedPasses
    /\ Len(all_interpretations) = num_passes - 1

AllDigits(s, from, to) == from <= to /\ \A i \in from..to : s[i] \in Digits

AllWhitespace(s, from, to) == \A i \in from..to : s[i] \in Whitespace

\* Some way to read the start of line as  <int>. <text>: <int>%  is accepted:
\* line[1..a] is the integer, line[a+1] the period, line[a+2..c-1] the text
\* with the whitespace before it, line[c] the colon, line[c+1..e] whitespace,
\* line[e+1..f] the percentage and line[f+1] the "%".
SomeReading(line, Accept(_, _, _, _)) ==
    \E a \in 1..Len(line) :
        /\ AllDigits(line, 1, a)
        /\ a + 2 <= Len(line)
        /\ line[a + 1] = "."
        /\ line[a + 2] \in Whitespace
        /\ \E c \in (a + 3)..Len(line) :
              /\ line[c] = ":"
              /\ \E f \in (c + 1)..(Len(line) - 1) :
                    /\ line[f + 1] = "%"
                    /\ \E e \in c..(f - 1) :
                          /\ AllWhitespace(line, c + 1, e)
                          /\ AllDigits(line, e + 1, f)
                          /\ Accept(a, c, e, f)

IsPatternLine(line) == SomeReading(line, LAMBDA a, c, e, f : TRUE)

\* cand is the candidate of one reading of line: the name is the text without
\* the whitespace around it
ReadsAs(line, cand) ==
    SomeReading(line, LAMBDA a, c, e, f :
        cand = [name       |-> Strip(SubSeq(line, a + 2, c - 1)),
                confidence |-> ParseInt(SubSeq(line, e + 1, f)),
                position   |-> ParseInt(SubSeq(line, 1, a))])

RECURSIVE InputLines(_)
\* the lines of the interpretations, in interpretation order then line order
InputLines(interpretations) ==
    IF Len(interpretations) = 0 THEN <<>>
    ELSE SplitLines(Strip(interpretations[1])) \o InputLines(Tail(interpretations))

\* C3: extraction yields exactly one candidate per line that starts as
\* "<int>. <text>: <int>%", in interpretation order then line order, whose
\* position, name and confidence are the integer, the text and the percentage
\* of a reading of that line; a text without such a line yields no candidate,
\* and nothing is raised.
C3_OneCandidatePerPatternLine ==
    pc \in {"Grouping", "NoMedicinesFound"} =>
        LET lines == SelectSeq(InputLines(all_interpretations), IsPatternLine)
        IN  /\ Len(medicine_candidates) = Len(lines)
            /\ \A k \in 1..Len(lines) : ReadsAs(lines[k], medicine_candidates[k])
            /\ ~uncaught

\* two interpretations, the second of two lines, gave three candidates in
\* interpretation order then line order, among lines that gave none
C3_Witness ==
    /\ pc = "Grouping"
    /\ Len(all_interpretations) = 2
    /\ Len(InputLines(all_interpretations)) = 3
    /\ Len(medicine_candidates) = 2
    /\ medicine_candidates[1].position = 10
    /\ medicine_candidates[1].confidence = 150
    /\ medicine_candidates[2].position = 2
    /\ ~IsPatternLine(InputLines(all_interpretations)[2])

\* f"Medicine {position}: [name: conf%, ...]" of the candidates cands
RenderedGroup(position, cands) ==
    <<"M", "e", "d", "i", "c", "i", "n", "e", " ">> \o FormatInt(position) \o <<":", " ", "[">>
        \o Join([i \in 1..Len(cands) |->
                    cands[i].name \o <<":", " ">> \o FormatInt(cands[i].confidence) \o <<"%">>],
                <<",", " ">>)
        \o <<"]">>

\* the candidates of cands at position p, in their order in cands
AtPosition(cands, p) == SelectSeq(cands, LAMBDA c : c.position = p)

\* C4: grouping returns one group per distinct position of the input
\* candidates, in strictly ascending position order, and each group and its
\* rendered string list the candidates of that position in input order.
C4_OneGroupPerPosition ==
    pc = "Verifying" =>
        LET input == extract_medicine_candidates(all_interpretations)
            groups == medicine_groups
        IN  /\ {groups[k][1] : k \in 1..Len(groups)}
                  = {input[i].position : i \in 1..Len(input)}
            /\ \A k \in 1..Len(groups), l \in 1..Len(groups) :
                  k < l => groups[k][1] < groups[l][1]
            /\ \A k \in 1..Len(groups) :
                  /\ groups[k][3] = AtPosition(input, groups[k][1])
                  /\ groups[k][2] = RenderedGroup(groups[k][1], AtPosition(input, groups[k][1]))

\* "Medicine 1: [Napa: 80%, Napa: 90%, Nap: 60%]"
ExampleGroup1 ==
    <<"M", "e", "d", "i", "c", "i", "n", "e", " ", "1", ":", " ", "[",
      "N", "a", "p", "a", ":", " ", "8", "0", "%", ",", " ",
      "N", "a", "p", "a", ":", " ", "9", "0", "%", ",", " ",
      "N", "a", "p", ":", " ", "6", "0", "%", "]">>

\* "Medicine 2: [Seclo: 70%, Seclo: 85%]"
ExampleGroup2 ==
    <<"M", "e", "d", "i", "c", "i", "n", "e", " ", "2", ":", " ", "[",
      "S", "e", "c", "l", "o", ":", " ", "7", "0", "%", ",", " ",
      "S", "e", "c", "l", "o", ":", " ", "8", "5", "%", "]">>

\* the worked example: five candidates grouped into the two rendered groups
C4_Witness ==
    /\ pc = "Verifying"
    /\ all_interpretations = ExampleInput
    /\ Len(medicine_candidates) = 5
    /\ Len(medicine_groups) = 2
    /\ medicine_groups[1][2] = ExampleGroup1
    /\ medicine_groups[2][2] = ExampleGroup2

\* C5: a run is on the NoMedicinesFound path exactly when the extraction of
\* the returned interpretations gave no candidate; with a candidate it goes
\* on to grouping.
C5_NoMedicinesIffNoCandidates ==
    /\ pc = "NoMedicinesFound" => Len(medicine_candidates) = 0
    /\ pc \in {"Grouping", "Verifying", "Synthesizing", "Done"} =>
          Len(medicine_candidates) > 0
    /\ pc \in {"NoMedicinesFound", "Grouping"} =>
          medicine_candidates = extract_medicine_candidates(all_interpretations)

\* interpretations were returned, none had a pattern line, the run ended early
C5_Witness ==
    /\ pc = "NoMedicinesFound"
    /\ Len(all_interpretations) >= 2
    /\ final_result = NoMedicinesReport

\* the entry the verification call of a prompt contributes
VerificationEntry(reply) ==
    IF reply.kind = "text" THEN reply.text
    ELSE <<"E", "r", "r", "o", "r", ":", " ">> \o reply.msg

\* C6: verify_medicine_groups returns exactly one result per submitted
\* position, the reply's text or "Error: <message>" when the call raised, for
\* every subset of failing calls, and no exception leaves it.
C6_OneResultPerGroup ==
    /\ pc \in {"Synthesizing", "Done"} =>
          /\ Len(medicine_groups) >= 1
          /\ Len(verification_results) = Len(medicine_groups)
          /\ \A k \in 1..Len(medicine_groups) :
                LET at == {j \in 1..Len(verification_results) :
                              verification_results[j][1] = medicine_groups[k][1]}
                IN  /\ Cardinality(at) = 1
                    /\ \A j \in at :
                          verification_results[j][2] = VerificationEntry(vreply[k])
    /\ (pc = "Verifying" \/ (pc = "Synthesizing" /\ final_call = "none")) => ~uncaught

\* a batch in which one call raised and another returned has been returned
C6_Witness ==
    /\ pc = "Synthesizing"
    /\ Len(medicine_groups) >= 2
    /\ \E k \in 1..Len(vreply) : vreply[k].kind = "raise"
    /\ \E k \in 1..Len(vreply) : vreply[k].kind = "text"
    /\ \E j \in 1..Len(verification_results) :
          verification_results[j][2] = <<"E", "r", "r", "o", "r", ":", " ", "4", "2", "9">>

StageRank ==
    [Idle |-> 0, Interpreting |-> 1, Extracting |-> 2, Grouping |-> 3,
     NoMedicinesFound |-> 3, Verifying |-> 4, Synthesizing |-> 5, Done |-> 6]

PipelineTransitions ==
    { <<"Idle", "Interpreting">>, <<"Interpreting", "Extracting">>,
      <<"Extracting", "Grouping">>, <<"Grouping", "Verifying">>,
      <<"Verifying", "Synthesizing">>, <<"Synthesizing", "Done">>,
      <<"Extracting", "NoMedicinesFound">> }

\* C7: the stage of a run changes only along Idle -> Interpreting ->
\* Extracting -> Grouping -> Verifying -> Synthesizing -> Done or Extracting
\* -> NoMedicinesFound, and every change moves to a later stage, so that no
\* stage is entered twice.
C7_OnlyForwardTransitions ==
    [][pc' # pc => /\ <<pc, pc'>> \in PipelineTransitions
                   /\ StageRank[pc'] > StageRank[pc]]_vars

\* a run went through every stage
C7_Witness ==
    /\ pc = "Done"
    /\ final_call = "returned"
    /\ Len(medicine_groups) >= 1
    /\ final_result = FinalText

\* C8: extraction starts only after every interpretation call has completed
\* or failed and been handled, and the final request is issued only after
\* every verification call has.
C8_StagesDoNotInterleave ==
    /\ pc \notin {"Idle", "Interpreting"} =>
          /\ DOMAIN ifut = Passes(num_passes)
          /\ \A i \in Passes(num_passes) : ifut[i] = "collected"
    /\ (pc \in {"Synthesizing", "Done"} \/ final_call # "none") =>
          /\ Len(vfut) = Len(medicine_groups)
          /\ \A k \in 1..Len(vfut) : vfut[k] = "collected"

\* the final request is in flight after a fan-out of several verifications
C8_Witness ==
    /\ pc = "Synthesizing"
    /\ final_call = "inflight"
    /\ num_passes >= 2
    /\ Len(vfut) >= 2

\* C9: the results handed to the final synthesis are in ascending position
\* order, one per position, and the prompt built from them is the one built
\* from the groups' replies in position order, whatever the order in which
\* the verification calls completed.
C9_PromptIndependentOfCompletionOrder ==
    final_call # "none" =>
        /\ \A k \in 1..Len(verification_results), l \in 1..Len(verification_results) :
              k < l => verification_results[k][1] < verification_results[l][1]
        /\ final_prompt =
              formatted_results([k \in 1..Len(medicine_groups) |->
                                    <<medicine_groups[k][1], VerificationEntry(vreply[k])>>])

\* the verifications were collected against the position order, with
\* different entries, and the final prompt has been built
C9_Witness ==
    /\ final_call = "inflight"
    /\ Len(vorder) >= 2
    /\ vorder[1] > vorder[2]
    /\ vreply[vorder[1]] # vreply[vorder[2]]

\* C10: on the same per-call outcomes the asyncio.gather fan-out returns the
\* list the thread-pool fan-out returns, and a failed call does not end it
\* with an exception.
C10_GatherAsThreadPool ==
    (pc = "Extracting" /\ gpc \in {"returned", "raised"}) =>
        /\ gpc = "returned"
        /\ gresults = all_interpretations

\* the calls of a fan-out that a worker is executing
Running(fut) == {k \in DOMAIN fut : fut[k] = "running"}

\* the calls of a fan-out that have been submitted and wait for a worker
Waiting(fut) == {k \in DOMAIN fut : fut[k] \in {"queued", "pending"}}

\* C11 (as stated): every fan-out stage dispatches all of its K calls in
\* parallel, so that no call of a stage ever waits for a worker or for its
\* turn while the stage is running: the bound on in-flight calls is K.
C11_AllCallsInFlightAtOnce ==
    /\ Waiting(ifut) = {}
    /\ Waiting(vfut) = {}
    /\ Waiting(final_output.tasks) = {}

\* C11 (amended): the interpretation pool and v2's gathered verification have
\* every one of their K calls in flight from the dispatch on; the verification
\* pool runs at most min(6, K) calls at a time, and exactly 6 while a call
\* waits in its queue; v2's verification loop has one call in flight at a time.
C11_InFlightBounds ==
    /\ Waiting(ifut) = {}
    /\ Cardinality(Running(vfut)) <= VerifyWorkerCap
    /\ Len(vfut) <= VerifyWorkerCap => Waiting(vfut) = {}
    /\ Waiting(vfut) # {} => Cardinality(Running(vfut)) = VerifyWorkerCap
    /\ final_output.variant = "gather" => Waiting(final_output.tasks) = {}
    /\ final_output.variant = "loop" =>
         /\ Cardinality(Running(final_output.tasks)) <= 1
         /\ final_output.pc = "verifying" => Cardinality(Running(final_output.tasks)) = 1

\* more groups than workers: a call has returned, the worker has taken the
\* last queued call, and the pool still runs its 6 calls
C11_Witness ==
    /\ Len(vfut) > VerifyWorkerCap
    /\ vfut[1] = "done"
    /\ vfut[Len(vfut)] = "running"
    /\ Cardinality(Running(vfut)) = VerifyWorkerCap

\* the requests of the run of this kind
RequestsOfKind(kind) == {k \in DOMAIN requests : requests[k].kind = kind}

\* how many requests of the run have this kind and this key
RequestCount(kind, key) ==
    Cardinality({k \in DOMAIN requests : requests[k] = [kind |-> kind, key |-> key]})

\* C12: in one run the model is requested exactly once per interpretation
\* temperature and, once the verifications are submitted, exactly once per
\* group position, whatever the calls do; the final synthesis request is
\* issued at most once.  No request is ever issued a second time.
C12_NoCallRetried ==
    /\ pc = "Idle" => requests = <<>>
    /\ pc # "Idle" =>
         /\ Cardinality(RequestsOfKind("interpretation")) = num_passes
         /\ \A i \in Passes(num_passes) :
              RequestCount("interpretation", BaseTemperature + i * StepTemperature) = 1
    /\ Len(vfut) = 0 => RequestsOfKind("verification") = {}
    /\ Len(vfut) > 0 =>
         /\ Cardinality(RequestsOfKind("verification")) = Len(medicine_groups)
         /\ \A g \in DOMAIN medicine_groups :
              RequestCount("verification", medicine_groups[g][1]) = 1
    /\ Cardinality(RequestsOfKind("final")) = (IF final_call = "none" THEN 0 ELSE 1)

\* a finished run in which an interpretation call and a verification call
\* failed
C12_Witness ==
    /\ pc = "Done"
    /\ \E i \in DOMAIN ireply : ireply[i].kind = "raise"
    /\ \E k \in DOMAIN vreply : vreply[k].kind = "raise"
    /\ Len(requests) = num_passes + Len(medicine_groups) + 1

\* the index of the last verify_medicine_name call made for this name
LastCallFor(name) ==
    CHOOSE k \in DOMAIN final_output.medicine_names :
        /\ final_output.medicine_names[k] = name
        /\ \A j \in DOMAIN final_output.medicine_names :
             final_output.medicine_names[j] = name => j <= k

\* C13 (as stated): the collected verification results hold one entry per
\* medicine name submitted for verification: the result count is the number
\* of names extracted, also when a name is extracted more than once.
C13_OneEntryPerSubmittedName ==
    final_output.pc = "verified" =>
        Len(final_output.verification_results) = Len(final_output.medicine_names)

\* C13 (amended): one call is made per extracted name, and the collected
\* verification results hold exactly one entry per distinct extracted name
\* (result count = number of distinct names): the entry of a name is what the
\* last call made for it returned, which for a failed call is the captured
\* "Error verifying medicine: ..." string.
C13_OneEntryPerDistinctName ==
    final_output.pc = "verified" =>
        LET names   == final_output.medicine_names
            replies == final_output.replies
            d       == final_output.verification_results
        IN  /\ \A k \in DOMAIN names : replies[k].kind \in {"text", "raise"}
            /\ \A j, k \in DOMAIN d : d[j][1] = d[k][1] => j = k
            /\ {d[k][1] : k \in DOMAIN d} = {names[k] : k \in DOMAIN names}
            /\ Len(d) = Cardinality({names[k] : k \in DOMAIN names})
            /\ \A e \in DOMAIN d :
                 LET reply == replies[LastCallFor(d[e][1])]
                 IN  d[e][2] = IF reply.kind = "text"
                               THEN reply.text
                               ELSE ErrorVerifyingPrefix \o reply.msg

\* a name extracted twice, its first call returning and its last call failing:
\* three names, two entries, the name's entry being the captured error
C13_Witness ==
    /\ final_output.pc = "verified"
    /\ Len(final_output.medicine_names) = 3
    /\ Len(final_output.verification_results) = 2
    /\ final_output.medicine_names[1] = final_output.medicine_names[3]
    /\ final_output.replies[1].kind = "text"
    /\ final_output.replies[3].kind = "raise"
    /\ final_output.verification_results[1][2] = ErrorVerifyingPrefix \o <<"4", "2", "9">>

\* C14: every candidate extract_medicine_candidates produces has an integer
\* confidence in 0..100, whatever the interpretation texts are.
C14_ConfidenceInRange ==
    \A k \in DOMAIN medicine_candidates :
        /\ medicine_candidates[k].confidence \in Int
        /\ medicine_candidates[k].confidence >= 0
        /\ medicine_candidates[k].confidence <= 100

\* C15: when the API credential is absent from the environment, the start is
\* fatal: once the credential has been read the script has shown its error
\* and stopped, so the model client is never constructed and no pipeline
\* stage runs.
C15_MissingCredentialIsFatal ==
    startup.environ = "absent" =>
        /\ startup.pc \in {"importing", "stopped"}
        /\ startup.pc = "stopped" => startup.error_shown
        /\ startup.client = "none"
        /\ pc = "Idle"

\* the requests of the run of this kind, in the order they were issued
RequestKeys(kind) ==
    LET of_kind == SelectSeq(requests, LAMBDA r : r.kind = kind)
    IN  [k \in 1..Len(of_kind) |-> of_kind[k].key]

\* the temperatures 0.7 + 0.2*i for i in 0..n-1, in tenths
VariedTemperatures(n) == [k \in 1..n |-> BaseTemperature + (k - 1) * StepTemperature]

\* C16 (as stated): in every variant run_parallel_interpretations with count N
\* issues N requests, request i carrying the temperature 0.7 + 0.2*i.
C16_VariedTemperaturesEverywhere ==
    /\ pc # "Idle" => RequestKeys("interpretation") = VariedTemperatures(num_passes)
    /\ gpc # "idle" =>
         RequestKeys("v1_interpretation") \o RequestKeys("v2_interpretation")
             = VariedTemperatures(num_passes)

\* C16 (amended): run_parallel_interpretations with count N issues N requests.
\* In the thread-pool variant request i carries 0.7 + 0.2*i, so the N
\* temperatures are pairwise distinct; in v1 and in v2 every one of the N
\* requests carries the temperature 0.2.
C16_RequestTemperatures ==
    /\ pc # "Idle" =>
         /\ RequestKeys("interpretation") = VariedTemperatures(num_passes)
         /\ \A j, k \in 1..num_passes :
              RequestKeys("interpretation")[j] = RequestKeys("interpretation")[k] => j = k
    /\ gpc # "idle" =>
         RequestKeys("v1_interpretation") \o RequestKeys("v2_interpretation")
             = [k \in 1..num_passes |-> 2]
    /\ gpc = "idle" =>
         RequestKeys("v1_interpretation") \o RequestKeys("v2_interpretation") = <<>>

\* the thread pool and v1 have each issued the requests of MaxPasses passes
C16_Witness ==
    /\ num_passes = MaxPasses
    /\ Len(RequestKeys("interpretation")) = MaxPasses
    /\ Len(RequestKeys("v1_interpretation")) = MaxPasses
    /\ gpc = "returned"

\* how many elements of seq are x
Occurrences(seq, x) == Cardinality({k \in DOMAIN seq : seq[k] = x})

RECURSIVE SumOfSizes(_)
\* the sizes of the groups, added up
SumOfSizes(groups) ==
    IF Len(groups) = 0 THEN 0 ELSE Len(groups[1][3]) + SumOfSizes(Tail(groups))

\* C17: grouping is a partition without deduplication: every input candidate
\* is in exactly one group, the one of its position, as many times as it
\* occurs in the input, so the group sizes add up to the number of input
\* candidates, identical candidates included.
C17_GroupingIsPartition ==
    pc = "Verifying" =>
        LET input == extract_medicine_candidates(all_interpretations)
        IN  /\ SumOfSizes(medicine_groups) = Len(input)
            /\ \A i \in DOMAIN input :
                 /\ Cardinality({g \in DOMAIN medicine_groups :
                                    medicine_groups[g][1] = input[i].position}) = 1
                 /\ \A g \in DOMAIN medicine_groups :
                      Occurrences(medicine_groups[g][3], input[i])
                          = IF medicine_groups[g][1] = input[i].position
                            THEN Occurrences(input, input[i])
                            ELSE 0

\* two interpretations give the same (name, confidence, position) candidate,
\* a third line gives another position: the first group holds the candidate twice
C17_Witness ==
    /\ pc = "Verifying"
    /\ Len(all_interpretations) >= 2
    /\ Len(medicine_groups) = 2
    /\ Len(medicine_groups[1][3]) = 2
    /\ medicine_groups[1][3][1] = medicine_groups[1][3][2]

\* C18: when the extraction yields no candidate the run ends in
\* NoMedicinesFound with the fixed report displayed, nothing else done, and
\* the model calls of the run are exactly the N interpretation calls: no
\* verification request, no final synthesis request, and no further step.
C18_NoMedicinesPathIssuesNoRequest ==
    (pc \notin {"Idle", "Interpreting", "Extracting"} /\ medicine_candidates = <<>>) =>
        /\ pc = "NoMedicinesFound"
        /\ final_result = <<"No medicines were identified in the prescription.">>
        /\ Len(requests) = num_passes
        /\ \A k \in DOMAIN requests :
             /\ requests[k].kind = "interpretation"
             /\ requests[k].key = BaseTemperature + (k - 1) * StepTemperature
        /\ medicine_groups = <<>>
        /\ vfut = <<>>
        /\ verification_results = <<>>
        /\ final_call = "none"
        /\ final_prompt = <<>>
        /\ ~ENABLED Next

\* a run of MaxPasses passes, one returning prose and one failing, has ended
\* with the fixed report
C18_Witness ==
    /\ pc = "NoMedicinesFound"
    /\ num_passes = MaxPasses
    /\ \E i \in DOMAIN ireply : ireply[i].kind = "text"
    /\ \E i \in DOMAIN ireply : ireply[i].kind = "raise"
    /\ final_result = NoMedicinesReport

\* a dispatched model call has neither returned nor raised yet
CallInFlight ==
    \/ \E i \in DOMAIN ifut : ifut[i] = "running"
    \/ \E k \in DOMAIN vfut : vfut[k] = "running"
    \/ final_call = "inflight"

\* main has a statement to execute: no exception has left it, and in its
\* stage it has a finished future to handle, a join that is complete, or a
\* stage function to call
MainCanStep ==
    /\ ~uncaught
    /\ \/ pc = "Interpreting" /\ \E i \in DOMAIN ifut : ifut[i] = "done"
       \/ pc = "Interpreting" /\ interpretations_joined(ifut)
       \/ pc \in {"Extracting", "Grouping"}
       \/ pc = "Verifying" /\ Len(vfut) = 0 /\ Len(medicine_groups) >= 1
       \/ pc = "Verifying" /\ \E k \in DOMAIN vfut : vfut[k] = "done"
       \/ pc = "Verifying" /\ Len(vfut) > 0 /\ verifications_joined(vfut)
       \/ pc = "Synthesizing" /\ final_call = "none"

\* every step of a run is the return of a call in flight or a step of main
StepsNeedCallOrMain == [][pc # "Idle" => (CallInFlight \/ MainCanStep)]_vars

\* C19: provided every dispatched model call eventually returns or raises,
\* every run that has started processing eventually reaches Done or
\* NoMedicinesFound.  No step leads back to an earlier state, so the run gets
\* there exactly if it cannot come to rest anywhere else: outside Done and
\* NoMedicinesFound a call is still in flight or main has a step to take.
C19_EveryRunFinishes ==
    pc \in {"Idle", "Done", "NoMedicinesFound"} \/ CallInFlight \/ MainCanStep

====
